---- MODULE Spec2Model ----
(***************************************************************************)
(* Presence-aware connection hub and real-time fan-out router of the chat  *)
(* server: the Socket.IO handlers (auth, typing, stopTyping, messageRead,  *)
(* disconnect) and the message-send request of the route module, over the  *)
(* module-level userSockets map and the users / conversations / groups /   *)
(* messages collections.                                                   *)
(*                                                                         *)
(* Every handler is an async function: it runs without interruption up to  *)
(* an await, and other handlers run while it is suspended.  A handler in   *)
(* flight is a record of the set "tasks"; one action models one            *)
(* uninterrupted segment of a handler.                                     *)
(***************************************************************************)
EXTENDS Naturals, Integers, Sequences, FiniteSets, Bags, TLC

\* ---------------------------------------------------------------- bounds
\* Number of auth requests accepted in one behaviour that starts with no
\* connection.
MaxOps == 3
\* Number of requests (auth, typing, stopTyping, message-send) accepted in
\* one behaviour that starts with the clients registered.
MaxRoutingOps == 1
\* Number of typing / stopTyping events accepted in one behaviour of the
\* typing handlers alone.
MaxTypingOps == 2
\* Number of requests (group edits, typing events, message-sends) accepted
\* in one behaviour of the group routes.
MaxGroupOps == 2
\* Number of requests that create or edit a group accepted in one
\* behaviour of the group routes alone.
MaxEditOps == 2
\* Number of requests to open a conversation accepted in one behaviour.
MaxConvOps == 2
\* Number of reaction requests accepted in one behaviour.
MaxReactOps == 3
\* Number of auth and typing events accepted in one behaviour of the typing
\* handlers with an arbitrary payload.
MaxPayloadOps == 2
\* Number of auth events and message-send requests accepted in one
\* behaviour of the message-send route.
MaxMessageOps == 2
\* Number of handlers that may be suspended at an await at the same time.
MaxInFlight == 2

\* ------------------------------------------------------------- universes
None == "none"
\* User identifiers (ObjectId strings of existing user documents).
Users == {"A", "B", "C"}
\* Socket ids, in the order in which the transport hands them out.
ConnOrder == <<"s1", "s2", "s3">>
Conns == {ConnOrder[i] : i \in 1..Len(ConnOrder)}
\* The userId field of an auth payload: a user id, or none for a payload
\* without the field (the client sends { userId: user?.id }).
AuthIds == Users \cup {None}
\* Ids a request can name: the conversation of A and B, the group of A, B
\* and C, the group of A and B, and an id of no document.
ConvId == "cAB"
GroupId == "gABC"
SmallGroupId == "gAB"
UnknownId == "x"
Targets == {ConvId, GroupId, SmallGroupId, UnknownId}

VARIABLES
  connState,      \* socket id -> "free" | "open" | "closed"
  userId,         \* socket id -> the closure variable userId of its handlers
  userSockets,    \* the userId -> socket.id map, as a set of <<key, value>>
  isOnline,       \* users collection: userId -> persisted isOnline
  conversations,  \* conversations collection
  groups,         \* groups collection
  messages,       \* messages collection
  tasks,          \* handlers suspended at an await
  left,           \* requests the behaviour may still accept
  emitted,        \* bag of the events the last step put on the sockets
  httpResp,       \* the HTTP response the last step sent, if any
  last,           \* the handler segment the last step ran
  reauth          \* users that authenticated while registered, and whose
                  \* current connection has not disconnected since

vars == <<connState, userId, userSockets, isOnline, conversations, groups,
          messages, tasks, left, emitted, httpResp, last, reauth>>

\* ------------------------------------------------------- the Map methods
\* userSockets.get(k)
Get(m, k) ==
  IF \E p \in m : p[1] = k THEN (CHOOSE p \in m : p[1] = k)[2] ELSE None

Has(m, k) == \E p \in m : p[1] = k

\* userSockets.set(userId, socket.id) of the auth handler, with the entry
\* of the key added to the others instead of replacing it.
RegisterKeepingOld(m, k, v) == m \cup {<<k, v>>}

\* userSockets.set(userId, socket.id) of the auth handler.
Register(m, k, v) == {p \in m : p[1] # k} \cup {<<k, v>>}

\* userSockets.delete(userId) of the disconnect handler.
Deregister(m, k) == {p \in m : p[1] # k}

\* ------------------------------------------------------------ helpers
Range(s) == {s[i] : i \in 1..Len(s)}

RECURSIVE FilterOut(_, _)
\* memberIds.filter((memberId) => memberId.toString() !== userId)
FilterOut(s, u) ==
  IF s = <<>> THEN <<>>
  ELSE IF Head(s) = u THEN FilterOut(Tail(s), u)
       ELSE <<Head(s)>> \o FilterOut(Tail(s), u)

OpenConns == {c \in Conns : connState[c] = "open"}

\* Socket ids that are the value of some registry entry.
RegisteredConns == {p[2] : p \in userSockets}

NoTask == [id |-> 0, kind |-> None, conn |-> None, uid |-> None,
           target |-> None, isTyping |-> FALSE, val |-> FALSE, pc |-> None,
           recipientIds |-> <<>>, regs |-> {}, current |-> FALSE]

NoResp == [status |-> 0, userId |-> None, target |-> None]

Event(to, type, uid, target, flag) ==
  [to |-> to, type |-> type, userId |-> uid, target |-> target, flag |-> flag]

\* socket.emit(type, payload) in the place of socket.broadcast.emit: the
\* event goes to the socket c alone.
EmitToSelfOnly(c, type, uid, flag) ==
  SetToBag({Event(d, type, uid, None, flag) : d \in OpenConns \cap {c}})

\* socket.broadcast.emit(type, payload): every connected socket but c.
BroadcastFrom(c, type, uid, flag) ==
  SetToBag({Event(d, type, uid, None, flag) : d \in OpenConns \ {c}})

RECURSIVE EmitToRecipients(_, _, _, _, _)

\* The delivery loop ended at the first recipient without a registry entry
\* (a break in the place of skipping the recipient).
EmitUntilMissing(rs, type, uid, target, flag) ==
  SetToBag({Event(Get(userSockets, rs[i]), type, uid, target, flag) :
              i \in {k \in 1..Len(rs) :
                       /\ \A j \in 1..k : Get(userSockets, rs[j]) # None
                       /\ connState[Get(userSockets, rs[k])] = "open"}})

\* recipientIds.forEach(r => { const id = userSockets.get(r);
\*                             if (id) io.to(id).emit(type, payload) })
\* io.to(id) reaches the socket with that id while it is connected.
EmitToRecipients(rs, type, uid, target, flag) ==
  IF rs = <<>> THEN EmptyBag
  ELSE LET id == Get(userSockets, Head(rs))
           rest == EmitToRecipients(Tail(rs), type, uid, target, flag)
       IN IF id # None /\ connState[id] = "open"
          THEN SetToBag({Event(id, type, uid, target, flag)}) (+) rest
          ELSE rest

\* The same loop when the emit to the socket bad throws: the exception
\* leaves forEach, so the recipients before the first one registered on bad
\* have been served and the ones after it have not.
EmitUntilThrow(rs, type, uid, target, flag, bad) ==
  SetToBag({Event(Get(userSockets, rs[i]), type, uid, target, flag) :
              i \in {k \in 1..Len(rs) :
                       /\ \A j \in 1..k : Get(userSockets, rs[j]) # bad
                       /\ Get(userSockets, rs[k]) # None
                       /\ connState[Get(userSockets, rs[k])] = "open"}})

\* The loop over rs attempts an emit to the connected socket bad.
WritesTo(rs, bad) ==
  /\ connState[bad] = "open"
  /\ \E k \in 1..Len(rs) : Get(userSockets, rs[k]) = bad

\* The null a lookup returns, as a document without id.
NoConversation == [id |-> None, participant1Id |-> None,
                   participant2Id |-> None, lastMessage |-> None,
                   updatedAt |-> 0]

NoGroup == [id |-> None, creatorId |-> None, memberIds |-> <<>>,
            lastMessage |-> None, updatedAt |-> 0]

\* getConversationById(id)
ConversationById(id) ==
  IF \E cv \in conversations : cv.id = id
  THEN CHOOSE cv \in conversations : cv.id = id ELSE NoConversation

\* getGroupById(id)
GroupById(id) ==
  IF \E g \in groups : g.id = id
  THEN CHOOSE g \in groups : g.id = id ELSE NoGroup

\* -------------------------------------------------------------- Init
\* The documents of the conversations and groups collections.
InitialConversations ==
  {[id |-> ConvId, participant1Id |-> "A", participant2Id |-> "B",
    lastMessage |-> None, updatedAt |-> 0]}

InitialGroups ==
  {[id |-> GroupId, creatorId |-> "A", memberIds |-> <<"A", "B", "C">>,
    lastMessage |-> None, updatedAt |-> 0],
   [id |-> SmallGroupId, creatorId |-> "A", memberIds |-> <<"A", "B">>,
    lastMessage |-> None, updatedAt |-> 0]}

\* The server after start-up: no socket, an empty registry, every user
\* persisted offline.
Init ==
  /\ connState = [c \in Conns |-> "free"]
  /\ userId = [c \in Conns |-> None]
  /\ userSockets = {}
  /\ isOnline = [u \in Users |-> FALSE]
  /\ conversations = InitialConversations
  /\ groups = InitialGroups
  /\ messages = {}
  /\ tasks = {}
  /\ left = MaxOps
  /\ emitted = EmptyBag
  /\ httpResp = NoResp
  /\ last = [op |-> "init", conn |-> None, t |-> NoTask]
  /\ reauth = {}

\* new Date(): a clock that advances with every request the server accepts;
\* the documents of Init carry the time 0.
Now == 100 - left

\* updateConversationLastMessage / updateGroupLastMessage: the preview and
\* the time of the last message of the document with the given id.
WithLastMessage(docs, id, preview) ==
  {IF d.id = id THEN [d EXCEPT !.lastMessage = preview, !.updatedAt = Now]
   ELSE d : d \in docs}

CanStart == left > 0 /\ Cardinality(tasks) < MaxInFlight

Step(op, c, t) == [op |-> op, conn |-> c, t |-> t]

\* ------------------------------------------------------ connection
\* io.on('connection'): a new socket, its userId closure variable null.
Connect ==
  /\ \E i \in 1..Len(ConnOrder) :
       /\ connState[ConnOrder[i]] = "free"
       /\ \A j \in 1..(i-1) : connState[ConnOrder[j]] # "free"
       /\ connState' = [connState EXCEPT ![ConnOrder[i]] = "open"]
       /\ last' = Step("Connect", ConnOrder[i], NoTask)
  /\ emitted' = EmptyBag
  /\ httpResp' = NoResp
  /\ UNCHANGED <<userId, userSockets, isOnline, conversations, groups,
                 messages, tasks, left, reauth>>

NewTask(kind, c, u, target, isTyping, val, pc) ==
  [id |-> left, kind |-> kind, conn |-> c, uid |-> u, target |-> target,
   isTyping |-> isTyping, val |-> val, pc |-> pc, recipientIds |-> <<>>,
   regs |-> {}, current |-> FALSE]

\* ------------------------------------------------------------- auth
\* socket.on('auth'), up to the await: the closure variable and the
\* registry are written, the presence write is issued.
AuthStart(c, u) ==
  /\ connState[c] = "open"
  /\ CanStart
  /\ userId' = [userId EXCEPT ![c] = u]
  /\ userSockets' = Register(userSockets, u, c)
  /\ LET t == NewTask("auth", c, u, None, FALSE, TRUE, "write")
     IN /\ tasks' = tasks \cup {t}
        /\ last' = Step("AuthStart", c, t)
  /\ left' = left - 1
  /\ reauth' = IF Has(userSockets, u) THEN reauth \cup {u} ELSE reauth
  /\ emitted' = EmptyBag
  /\ httpResp' = NoResp
  /\ UNCHANGED <<connState, isOnline, conversations, groups, messages>>

\* updateUserOnlineStatus: the findOneAndUpdate issued by a handler takes
\* effect in the users collection while the handler is suspended; writes of
\* different handlers are not ordered with respect to each other.  An id
\* of no user document (new ObjectId(undefined) is a fresh id) updates
\* nothing.
DbWrite(t) ==
  /\ t \in tasks
  /\ t.pc = "write"
  /\ isOnline' = IF t.uid \in Users
                 THEN [isOnline EXCEPT ![t.uid] = t.val] ELSE isOnline
  /\ tasks' = (tasks \ {t}) \cup {[t EXCEPT !.pc = "emit"]}
  /\ last' = Step("DbWrite", t.conn, t)
  /\ emitted' = EmptyBag
  /\ httpResp' = NoResp
  /\ UNCHANGED <<connState, userId, userSockets, conversations, groups,
                 messages, left, reauth>>

\* socket.on('auth'), after the await: userStatus online to the others.
AuthFinish(t) ==
  /\ t \in tasks
  /\ t.kind = "auth"
  /\ t.pc = "emit"
  /\ emitted' = BroadcastFrom(t.conn, "userStatus", userId[t.conn], TRUE)
  /\ tasks' = tasks \ {t}
  /\ last' = Step("AuthFinish", t.conn, t)
  /\ httpResp' = NoResp
  /\ UNCHANGED <<connState, userId, userSockets, isOnline, conversations,
                 groups, messages, left, reauth>>

\* ------------------------------------------------------- disconnect
\* socket.on('disconnect'), up to the await.  The transport has closed the
\* socket; a socket that never authenticated has nothing to undo.
Disconnect(c) ==
  /\ connState[c] = "open"
  /\ connState' = [connState EXCEPT ![c] = "closed"]
  /\ IF userId[c] # None
     THEN /\ Cardinality(tasks) < MaxInFlight
          /\ userSockets' = Deregister(userSockets, userId[c])
          /\ LET cur == Get(userSockets, userId[c]) = c
                 t == [NewTask("disconnect", c, userId[c], None, FALSE,
                               FALSE, "write")
                         EXCEPT !.current = cur,
                                !.regs = (RegisteredConns \cap OpenConns) \ {c}]
             IN /\ tasks' = tasks \cup {t}
                /\ last' = Step("Disconnect", c, t)
                /\ reauth' = IF cur THEN reauth \ {userId[c]} ELSE reauth
     ELSE /\ last' = Step("Disconnect", c, NoTask)
          /\ UNCHANGED <<userSockets, tasks, reauth>>
  /\ emitted' = EmptyBag
  /\ httpResp' = NoResp
  /\ UNCHANGED <<userId, isOnline, conversations, groups, messages, left>>

\* socket.on('disconnect'), after the await: userStatus offline to the
\* others.
DiscFinish(t) ==
  /\ t \in tasks
  /\ t.kind = "disconnect"
  /\ t.pc = "emit"
  /\ emitted' = BroadcastFrom(t.conn, "userStatus", userId[t.conn], FALSE)
  /\ tasks' = tasks \ {t}
  /\ last' = Step("DiscFinish", t.conn, t)
  /\ httpResp' = NoResp
  /\ UNCHANGED <<connState, userId, userSockets, isOnline, conversations,
                 groups, messages, left, reauth>>

\* ----------------------------------------------- typing / stopTyping
\* Recipients of a typing event on a conversation, the sender among them.
TypingConvRecipientsBoth(cv, u) == <<cv.participant1Id, cv.participant2Id>>

\* Recipients of a typing event on a conversation: the participant that is
\* not the closure variable userId, and participant1 when neither is.
TypingConvRecipients(cv, u) ==
  <<IF cv.participant1Id = u THEN cv.participant2Id ELSE cv.participant1Id>>

\* Recipients of a typing event on a group taken from the member list the
\* group had at start-up (a recipient set cached across events).
TypingGroupRecipientsAtStartup(g, u) ==
  FilterOut((CHOOSE d \in InitialGroups \cup {NoGroup} : d.id = g.id).memberIds,
            u)

\* Recipients of a typing event on a group: the members other than the
\* closure variable userId.
TypingGroupRecipients(g, u) == FilterOut(g.memberIds, u)

\* A typing or stopTyping handler in flight: dataUserId is the userId field
\* of the event payload, which the handler does not read (it destructures
\* conversationId and isTyping).
TypingTask(kind, c, u, target, isTyping, dataUserId) ==
  [id |-> left, kind |-> kind, conn |-> c, uid |-> u, target |-> target,
   isTyping |-> isTyping, val |-> FALSE, pc |-> "conv",
   recipientIds |-> <<>>, regs |-> {}, current |-> FALSE,
   dataUserId |-> dataUserId]

\* The typing and stopTyping handlers without their first line
\* (if (!userId) return): the lookups start for any socket.
TypingStartUnguarded(c, kind, target, isTyping, dataUserId) ==
  /\ connState[c] = "open"
  /\ left > 0
  /\ kind \in {"typing", "stopTyping"}
  /\ kind = "stopTyping" => isTyping = FALSE
  /\ Cardinality(tasks) < MaxInFlight
  /\ LET t == TypingTask(kind, c, userId[c], target, isTyping, dataUserId)
     IN /\ tasks' = tasks \cup {t}
        /\ last' = Step("TypingStart", c, t)
  /\ left' = left - 1
  /\ emitted' = EmptyBag
  /\ httpResp' = NoResp
  /\ UNCHANGED <<connState, userId, userSockets, isOnline, conversations,
                 groups, messages, reauth>>

\* socket.on('typing') and socket.on('stopTyping'), up to the first await:
\* the event of a socket that has not authenticated is dropped.
TypingStart(c, kind, target, isTyping, dataUserId) ==
  /\ connState[c] = "open"
  /\ left > 0
  /\ kind \in {"typing", "stopTyping"}
  /\ kind = "stopTyping" => isTyping = FALSE
  /\ IF userId[c] = None
     THEN /\ last' = Step("TypingDropped", c, NoTask)
          /\ UNCHANGED tasks
     ELSE /\ Cardinality(tasks) < MaxInFlight
          /\ LET t == TypingTask(kind, c, userId[c], target, isTyping,
                                 dataUserId)
             IN /\ tasks' = tasks \cup {t}
                /\ last' = Step("TypingStart", c, t)
  /\ left' = left - 1
  /\ emitted' = EmptyBag
  /\ httpResp' = NoResp
  /\ UNCHANGED <<connState, userId, userSockets, isOnline, conversations,
                 groups, messages, reauth>>

\* The stopTyping handler emitting an event of its own name in the place
\* of typing with isTyping false.
TypingEmitOwnEvent(t, rs) ==
  EmitToRecipients(rs, t.kind, userId[t.conn], t.target,
                   IF t.kind = "typing" THEN t.isTyping ELSE FALSE)

\* The typing event carrying the userId of the payload in the place of the
\* closure variable of the socket.
TypingEmitPayloadUserId(t, rs) ==
  EmitToRecipients(rs, "typing", t.dataUserId, t.target,
                   IF t.kind = "typing" THEN t.isTyping ELSE FALSE)

\* The typing event the handler of task t emits to the recipients rs.
TypingEmit(t, rs) ==
  EmitToRecipients(rs, "typing", userId[t.conn], t.target,
                   IF t.kind = "typing" THEN t.isTyping ELSE FALSE)

\* After await getConversationById: emit to the other participant, or go
\* on to the group lookup.
TypingConvResult(t) ==
  /\ t \in tasks
  /\ t.kind \in {"typing", "stopTyping"}
  /\ t.pc = "conv"
  /\ LET cv == ConversationById(t.target)
     IN IF cv.id # None
        THEN LET rs == TypingConvRecipients(cv, userId[t.conn])
             IN /\ emitted' = TypingEmit(t, rs)
                /\ tasks' = tasks \ {t}
                /\ last' = Step("TypingConvResult", t.conn,
                                [t EXCEPT !.uid = userId[t.conn],
                                          !.recipientIds = rs])
        ELSE /\ emitted' = EmptyBag
             /\ tasks' = (tasks \ {t}) \cup {[t EXCEPT !.pc = "group"]}
             /\ last' = Step("TypingConvMiss", t.conn, t)
  /\ httpResp' = NoResp
  /\ UNCHANGED <<connState, userId, userSockets, isOnline, conversations,
                 groups, messages, left, reauth>>

\* After await getGroupById: emit to the other members; an id that is no
\* group either has no recipients.
TypingGroupResult(t) ==
  /\ t \in tasks
  /\ t.kind \in {"typing", "stopTyping"}
  /\ t.pc = "group"
  /\ LET g == GroupById(t.target)
         rs == IF g.id # None THEN TypingGroupRecipients(g, userId[t.conn])
               ELSE <<>>
     IN /\ emitted' = TypingEmit(t, rs)
        /\ last' = Step("TypingGroupResult", t.conn,
                        [t EXCEPT !.uid = userId[t.conn],
                                  !.recipientIds = rs])
  /\ tasks' = tasks \ {t}
  /\ httpResp' = NoResp
  /\ UNCHANGED <<connState, userId, userSockets, isOnline, conversations,
                 groups, messages, left, reauth>>

\* The delivery loop of a typing / stopTyping handler left by an exception
\* of the emit to the socket bad: the catch of the handler logs it.
TypingEmitThrows(t, bad) ==
  /\ t \in tasks
  /\ t.kind \in {"typing", "stopTyping"}
  /\ t.pc \in {"conv", "group"}
  /\ t.pc = "conv" => ConversationById(t.target).id # None
  /\ LET g == GroupById(t.target)
         rs == IF t.pc = "conv"
               THEN TypingConvRecipients(ConversationById(t.target),
                                         userId[t.conn])
               ELSE IF g.id # None
                    THEN TypingGroupRecipients(g, userId[t.conn])
                    ELSE <<>>
     IN /\ WritesTo(rs, bad)
        /\ emitted' = EmitUntilThrow(rs, "typing", userId[t.conn], t.target,
                                     IF t.kind = "typing" THEN t.isTyping
                                     ELSE FALSE, bad)
        /\ last' = Step("TypingEmitThrows", bad,
                        [t EXCEPT !.uid = userId[t.conn],
                                  !.recipientIds = rs])
  /\ tasks' = tasks \ {t}
  /\ httpResp' = NoResp
  /\ UNCHANGED <<connState, userId, userSockets, isOnline, conversations,
                 groups, messages, left, reauth>>

\* ------------------------------------------------------- messageRead
\* socket.on('messageRead'): dropped for a socket that has not
\* authenticated, else logged; read receipts go through the REST API.
MessageRead(c) ==
  /\ connState[c] = "open"
  /\ left > 0
  /\ last' = Step(IF userId[c] = None THEN "MessageReadDropped"
                  ELSE "MessageRead", c, NoTask)
  /\ left' = left - 1
  /\ emitted' = EmptyBag
  /\ httpResp' = NoResp
  /\ UNCHANGED <<connState, userId, userSockets, isOnline, conversations,
                 groups, messages, tasks, reauth>>

\* ------------------------------------------------------ message-send
\* Outcome of the conversation branch: 403 for a sender that is neither
\* participant, else the other participant as the only recipient.
PostConvOutcome(cv, u) ==
  IF cv.participant1Id # u /\ cv.participant2Id # u
  THEN [status |-> 403, recipientIds |-> <<>>]
  ELSE [status |-> 0,
        recipientIds |-> <<IF cv.participant1Id = u THEN cv.participant2Id
                           ELSE cv.participant1Id>>]

\* Outcome of the group branch, an id that is no group taken for a group
\* without members.
PostGroupOutcomeNoNotFound(g, u) ==
  IF g.id = None THEN [status |-> 0, recipientIds |-> <<>>]
  ELSE IF u \notin Range(g.memberIds)
       THEN [status |-> 403, recipientIds |-> <<>>]
       ELSE [status |-> 0, recipientIds |-> FilterOut(g.memberIds, u)]

\* Outcome of the group branch, the sender left among the recipients.
PostGroupOutcomeWithSender(g, u) ==
  IF g.id = None THEN [status |-> 404, recipientIds |-> <<>>]
  ELSE IF u \notin Range(g.memberIds)
       THEN [status |-> 403, recipientIds |-> <<>>]
       ELSE [status |-> 0, recipientIds |-> g.memberIds]

\* Outcome of the group branch: 404 when the id is no group either, 403 for
\* a sender that is not a member, else the members other than the sender.
PostGroupOutcome(g, u) ==
  IF g.id = None THEN [status |-> 404, recipientIds |-> <<>>]
  ELSE IF u \notin Range(g.memberIds)
       THEN [status |-> 403, recipientIds |-> <<>>]
       ELSE [status |-> 0, recipientIds |-> FilterOut(g.memberIds, u)]

\* The request up to await getConversationById; u is req.user.userId.  A
\* text message without content is answered 400.
PostStart(u, target, hasContent) ==
  /\ left > 0
  /\ IF ~hasContent
     THEN /\ httpResp' = [status |-> 400, userId |-> u, target |-> target]
          /\ last' = Step("PostRejected", None, NoTask)
          /\ UNCHANGED tasks
     ELSE /\ Cardinality(tasks) < MaxInFlight
          /\ LET t == NewTask("post", None, u, target, FALSE, FALSE, "conv")
             IN /\ tasks' = tasks \cup {t}
                /\ last' = Step("PostStart", None, t)
          /\ httpResp' = NoResp
  /\ left' = left - 1
  /\ emitted' = EmptyBag
  /\ UNCHANGED <<connState, userId, userSockets, isOnline, conversations,
                 groups, messages, reauth>>

\* After await getConversationById.
PostConvResult(t) ==
  /\ t \in tasks
  /\ t.kind = "post"
  /\ t.pc = "conv"
  /\ LET cv == ConversationById(t.target)
     IN IF cv.id # None
        THEN LET o == PostConvOutcome(cv, t.uid)
                 t2 == [t EXCEPT !.recipientIds = o.recipientIds,
                                 !.pc = "create"]
             IN IF o.status # 0
                THEN /\ httpResp' = [status |-> o.status, userId |-> t.uid,
                                     target |-> t.target]
                     /\ tasks' = tasks \ {t}
                     /\ last' = Step("PostConvResult", None, t2)
                ELSE /\ httpResp' = NoResp
                     /\ tasks' = (tasks \ {t}) \cup {t2}
                     /\ last' = Step("PostConvResult", None, t2)
        ELSE /\ httpResp' = NoResp
             /\ tasks' = (tasks \ {t}) \cup {[t EXCEPT !.pc = "group"]}
             /\ last' = Step("PostConvMiss", None, t)
  /\ emitted' = EmptyBag
  /\ UNCHANGED <<connState, userId, userSockets, isOnline, conversations,
                 groups, messages, left, reauth>>

\* After await getGroupById, with the message inserted before the outcome
\* of the lookup is looked at: a rejected request leaves a message behind.
PostGroupResultInsertFirst(t) ==
  /\ t \in tasks
  /\ t.kind = "post"
  /\ t.pc = "group"
  /\ LET o == PostGroupOutcome(GroupById(t.target), t.uid)
         t2 == [t EXCEPT !.recipientIds = o.recipientIds, !.pc = "create"]
     IN /\ last' = Step("PostGroupResult", None, t2)
        /\ IF o.status # 0
           THEN /\ httpResp' = [status |-> o.status, userId |-> t.uid,
                                target |-> t.target]
                /\ tasks' = tasks \ {t}
           ELSE /\ httpResp' = NoResp
                /\ tasks' = (tasks \ {t}) \cup {t2}
  /\ messages' = messages \cup {[senderId |-> t.uid, target |-> t.target]}
  /\ emitted' = EmptyBag
  /\ UNCHANGED <<connState, userId, userSockets, isOnline, conversations,
                 groups, left, reauth>>

\* After await getGroupById.
PostGroupResult(t) ==
  /\ t \in tasks
  /\ t.kind = "post"
  /\ t.pc = "group"
  /\ LET o == PostGroupOutcome(GroupById(t.target), t.uid)
         t2 == [t EXCEPT !.recipientIds = o.recipientIds, !.pc = "create"]
     IN /\ last' = Step("PostGroupResult", None, t2)
        /\ IF o.status # 0
           THEN /\ httpResp' = [status |-> o.status, userId |-> t.uid,
                                target |-> t.target]
                /\ tasks' = tasks \ {t}
           ELSE /\ httpResp' = NoResp
                /\ tasks' = (tasks \ {t}) \cup {t2}
  /\ emitted' = EmptyBag
  /\ UNCHANGED <<connState, userId, userSockets, isOnline, conversations,
                 groups, messages, left, reauth>>

\* After await createMessage (the message inserted, the last message of
\* its conversation or group updated): newMessage to the recipients that
\* have a registry entry, then 201.
PostCreated(t) ==
  /\ t \in tasks
  /\ t.kind = "post"
  /\ t.pc = "create"
  /\ messages' = messages \cup {[senderId |-> t.uid, target |-> t.target]}
  /\ conversations' = WithLastMessage(conversations, t.target, t.uid)
  /\ groups' = WithLastMessage(groups, t.target, t.uid)
  /\ emitted' = EmitToRecipients(t.recipientIds, "newMessage", t.uid,
                                 t.target, FALSE)
  /\ httpResp' = [status |-> 201, userId |-> t.uid, target |-> t.target]
  /\ tasks' = tasks \ {t}
  /\ last' = Step("PostCreated", None, t)
  /\ UNCHANGED <<connState, userId, userSockets, isOnline, left, reauth>>

\* After await createMessage, the delivery loop left by an exception of the
\* emit to the socket bad: the catch of the route answers 500, the message
\* stays created.
PostCreatedThrows(t, bad) ==
  /\ t \in tasks
  /\ t.kind = "post"
  /\ t.pc = "create"
  /\ WritesTo(t.recipientIds, bad)
  /\ messages' = messages \cup {[senderId |-> t.uid, target |-> t.target]}
  /\ conversations' = WithLastMessage(conversations, t.target, t.uid)
  /\ groups' = WithLastMessage(groups, t.target, t.uid)
  /\ emitted' = EmitUntilThrow(t.recipientIds, "newMessage", t.uid,
                               t.target, FALSE, bad)
  /\ httpResp' = [status |-> 500, userId |-> t.uid, target |-> t.target]
  /\ tasks' = tasks \ {t}
  /\ last' = Step("PostCreatedThrows", bad, t)
  /\ UNCHANGED <<connState, userId, userSockets, isOnline, left, reauth>>

\* ----------------------------------------------------- group routes
\* The memberIds a request to add members carries, and the group ids a
\* group request names.
EditLists == {<<"C">>, <<"B", "C">>, <<"C", "C">>}

GroupTargets == {GroupId, SmallGroupId, UnknownId}

RECURSIVE AddToSet(_, _)

\* $push in the place of $addToSet: the ids are appended as they come.
PushAll(members, ms) == members \o ms

\* $addToSet: { memberIds: { $each: ms } }
AddToSet(members, ms) ==
  IF ms = <<>> THEN members
  ELSE AddToSet(IF Head(ms) \in Range(members) THEN members
                ELSE Append(members, Head(ms)), Tail(ms))

\* A group route in flight: memberIds is the list (or the one member) the
\* request names, group the document its update returned.
GroupTask(kind, u, gid, ms, pc) ==
  [id |-> left, kind |-> kind, conn |-> None, uid |-> u, target |-> gid,
   isTyping |-> FALSE, val |-> FALSE, pc |-> pc, recipientIds |-> <<>>,
   regs |-> {}, current |-> FALSE, memberIds |-> ms, group |-> NoGroup]

GroupResp(status, t, error) ==
  [status |-> status, userId |-> t.uid, target |-> t.target,
   error |-> error]

GroupUpdateEvent(to, gid, action, g) ==
  [to |-> to, type |-> "groupUpdate", userId |-> None, target |-> gid,
   flag |-> FALSE, action |-> action, data |-> g]

RECURSIVE EmitGroupUpdate(_, _, _)

\* The event sent to every registered member of the updated group instead
\* of the ids of the request.
EmitGroupUpdateToMembers(ms, gid, g) ==
  SetToBag({GroupUpdateEvent(id, gid, "memberAdded", g) :
              id \in {Get(userSockets, m) : m \in Range(g.memberIds)}
                       \cap OpenConns})

\* memberIds.forEach(m => { const id = userSockets.get(m);
\*   if (id) io.to(id).emit('groupUpdate', { groupId, action, data }) })
EmitGroupUpdate(ms, gid, g) ==
  IF ms = <<>> THEN EmptyBag
  ELSE LET id == Get(userSockets, Head(ms))
           rest == EmitGroupUpdate(Tail(ms), gid, g)
       IN IF id # None /\ connState[id] = "open"
          THEN SetToBag({GroupUpdateEvent(id, gid, "memberAdded", g)})
                 (+) rest
          ELSE rest

\* A step of a group route that ends the request with a response.
GroupRespond(t, op, status, error) ==
  /\ httpResp' = GroupResp(status, t, error)
  /\ tasks' = tasks \ {t}
  /\ last' = Step(op, None, t)

\* A step of a group route that goes on to its next await.
GroupGoOn(t, op, t2) ==
  /\ httpResp' = NoResp
  /\ tasks' = (tasks \ {t}) \cup {t2}
  /\ last' = Step(op, None, t2)

\* POST /api/groups/:id/members up to await getGroupById; u is
\* req.user.userId.
AddMembersStart(u, gid, ms) ==
  /\ CanStart
  /\ LET t == GroupTask("addMembers", u, gid, ms, "group")
     IN /\ tasks' = tasks \cup {t}
        /\ last' = Step("AddMembersStart", None, t)
  /\ left' = left - 1
  /\ emitted' = EmptyBag
  /\ httpResp' = NoResp
  /\ UNCHANGED <<connState, userId, userSockets, isOnline, conversations,
                 groups, messages, reauth>>

\* After await getGroupById: 404 for no group, 403 for a requester that is
\* not a member; the existence of the new members is looked up when the
\* list is not empty.
AddMembersGroupResult(t) ==
  /\ t \in tasks
  /\ t.kind = "addMembers"
  /\ t.pc = "group"
  /\ LET g == GroupById(t.target)
     IN IF g.id = None
        THEN GroupRespond(t, "AddMembersGroupResult", 404, "Group not found")
        ELSE IF t.uid \notin Range(g.memberIds)
        THEN GroupRespond(t, "AddMembersGroupResult", 403,
                          "Only group members can add others")
        ELSE GroupGoOn(t, "AddMembersGroupResult",
                       [t EXCEPT !.pc = IF Len(t.memberIds) > 0 THEN "users"
                                        ELSE "update"])
  /\ emitted' = EmptyBag
  /\ UNCHANGED <<connState, userId, userSockets, isOnline, conversations,
                 groups, messages, left, reauth>>

\* After await getUsersByIds: 400 unless the lookup found as many users as
\* the list has ids.
AddMembersUsersResult(t) ==
  /\ t \in tasks
  /\ t.kind = "addMembers"
  /\ t.pc = "users"
  /\ IF Cardinality(Range(t.memberIds) \cap Users) # Len(t.memberIds)
     THEN GroupRespond(t, "AddMembersUsersResult", 400,
                       "One or more user IDs are invalid")
     ELSE GroupGoOn(t, "AddMembersUsersResult", [t EXCEPT !.pc = "update"])
  /\ emitted' = EmptyBag
  /\ UNCHANGED <<connState, userId, userSockets, isOnline, conversations,
                 groups, messages, left, reauth>>

\* addMembersToGroup: the findOneAndUpdate with $addToSet takes effect and
\* returns the document after the update.
AddMembersWrite(t) ==
  /\ t \in tasks
  /\ t.kind = "addMembers"
  /\ t.pc = "update"
  /\ LET g == GroupById(t.target)
         g2 == IF g.id = None THEN NoGroup
               ELSE [g EXCEPT !.memberIds = AddToSet(g.memberIds,
                                                     t.memberIds),
                              !.updatedAt = Now]
     IN /\ groups' = IF g.id = None THEN groups
                     ELSE (groups \ {g}) \cup {g2}
        /\ GroupGoOn(t, "AddMembersWrite",
                     [t EXCEPT !.pc = "notify", !.group = g2])
  /\ emitted' = EmptyBag
  /\ UNCHANGED <<connState, userId, userSockets, isOnline, conversations,
                 messages, left, reauth>>

\* After await addMembersToGroup: groupUpdate to the ids of the list that
\* have a registry entry, then the updated group as the response.
AddMembersNotify(t) ==
  /\ t \in tasks
  /\ t.kind = "addMembers"
  /\ t.pc = "notify"
  /\ emitted' = EmitGroupUpdate(t.memberIds, t.target, t.group)
  /\ GroupRespond(t, "AddMembersNotify", 200, None)
  /\ UNCHANGED <<connState, userId, userSockets, isOnline, conversations,
                 groups, messages, left, reauth>>

\* DELETE /api/groups/:id/members/:memberId up to await getGroupById.
RemoveMemberStart(u, gid, m) ==
  /\ CanStart
  /\ LET t == GroupTask("removeMember", u, gid, <<m>>, "group")
     IN /\ tasks' = tasks \cup {t}
        /\ last' = Step("RemoveMemberStart", None, t)
  /\ left' = left - 1
  /\ emitted' = EmptyBag
  /\ httpResp' = NoResp
  /\ UNCHANGED <<connState, userId, userSockets, isOnline, conversations,
                 groups, messages, reauth>>

\* After await getGroupById: 404 for no group, 403 for a requester that is
\* not a member, 403 for a member other than the creator that removes
\* someone else.
RemoveMemberGroupResult(t) ==
  /\ t \in tasks
  /\ t.kind = "removeMember"
  /\ t.pc = "group"
  /\ LET g == GroupById(t.target)
     IN IF g.id = None
        THEN GroupRespond(t, "RemoveMemberGroupResult", 404,
                          "Group not found")
        ELSE IF t.uid \notin Range(g.memberIds)
        THEN GroupRespond(t, "RemoveMemberGroupResult", 403,
                          "Not authorized")
        ELSE IF t.memberIds[1] # t.uid /\ g.creatorId # t.uid
        THEN GroupRespond(t, "RemoveMemberGroupResult", 403,
                          "Only group creator can remove members")
        ELSE GroupGoOn(t, "RemoveMemberGroupResult",
                       [t EXCEPT !.pc = "check"])
  /\ emitted' = EmptyBag
  /\ UNCHANGED <<connState, userId, userSockets, isOnline, conversations,
                 groups, messages, left, reauth>>

\* removeMemberFromGroup after its await getGroupById: it throws for no
\* group (500) and for the creator (403 with the message of the error).
RemoveMemberCheck(t) ==
  /\ t \in tasks
  /\ t.kind = "removeMember"
  /\ t.pc = "check"
  /\ LET g == GroupById(t.target)
     IN IF g.id = None
        THEN GroupRespond(t, "RemoveMemberCheck", 500, "Server error")
        ELSE IF g.creatorId = t.memberIds[1]
        THEN GroupRespond(t, "RemoveMemberCheck", 403,
                          "Creator cannot be removed")
        ELSE GroupGoOn(t, "RemoveMemberCheck", [t EXCEPT !.pc = "update"])
  /\ emitted' = EmptyBag
  /\ UNCHANGED <<connState, userId, userSockets, isOnline, conversations,
                 groups, messages, left, reauth>>

\* removeMemberFromGroup: the findOneAndUpdate with $pull takes effect.
RemoveMemberWrite(t) ==
  /\ t \in tasks
  /\ t.kind = "removeMember"
  /\ t.pc = "update"
  /\ LET g == GroupById(t.target)
         g2 == IF g.id = None THEN NoGroup
               ELSE [g EXCEPT !.memberIds = FilterOut(g.memberIds,
                                                      t.memberIds[1]),
                              !.updatedAt = Now]
     IN /\ groups' = IF g.id = None THEN groups
                     ELSE (groups \ {g}) \cup {g2}
        /\ GroupGoOn(t, "RemoveMemberWrite",
                     [t EXCEPT !.pc = "respond", !.group = g2])
  /\ emitted' = EmptyBag
  /\ UNCHANGED <<connState, userId, userSockets, isOnline, conversations,
                 messages, left, reauth>>

\* After await removeMemberFromGroup: the success response.
RemoveMemberDone(t) ==
  /\ t \in tasks
  /\ t.kind = "removeMember"
  /\ t.pc = "respond"
  /\ GroupRespond(t, "RemoveMemberDone", 200, None)
  /\ emitted' = EmptyBag
  /\ UNCHANGED <<connState, userId, userSockets, isOnline, conversations,
                 groups, messages, left, reauth>>

\* The memberIds a request to create a group carries, and the ids insertOne
\* gives to new groups, in order.
CreateLists == {<<>>, <<"B">>, <<"A", "B">>, <<"B", "B">>}

NewGroupIds == <<"g1", "g2", "g3", "g4">>

\* createGroup: the member list of the new document, the creator pushed
\* when the list does not have it.
CreatedMembers(u, ms) == IF u \in Range(ms) THEN ms ELSE Append(ms, u)

\* POST /api/groups up to the first await; u is req.user.userId.  The
\* existence of the members is looked up when the list is not empty.
CreateGroupStart(u, ms) ==
  /\ CanStart
  /\ LET t == GroupTask("createGroup", u, None, ms,
                        IF Len(ms) > 0 THEN "users" ELSE "insert")
     IN /\ tasks' = tasks \cup {t}
        /\ last' = Step("CreateGroupStart", None, t)
  /\ left' = left - 1
  /\ emitted' = EmptyBag
  /\ httpResp' = NoResp
  /\ UNCHANGED <<connState, userId, userSockets, isOnline, conversations,
                 groups, messages, reauth>>

\* After await getUsersByIds: 400 unless the lookup found as many users as
\* the list has ids.
CreateGroupUsersResult(t) ==
  /\ t \in tasks
  /\ t.kind = "createGroup"
  /\ t.pc = "users"
  /\ IF Cardinality(Range(t.memberIds) \cap Users) # Len(t.memberIds)
     THEN GroupRespond(t, "CreateGroupUsersResult", 400,
                       "One or more user IDs are invalid")
     ELSE GroupGoOn(t, "CreateGroupUsersResult", [t EXCEPT !.pc = "insert"])
  /\ emitted' = EmptyBag
  /\ UNCHANGED <<connState, userId, userSockets, isOnline, conversations,
                 groups, messages, left, reauth>>

\* createGroup: the insertOne of the new document takes effect.
CreateGroupInsert(t) ==
  /\ t \in tasks
  /\ t.kind = "createGroup"
  /\ t.pc = "insert"
  /\ LET used == {g.id : g \in groups}
         i == CHOOSE k \in 1..Len(NewGroupIds) :
                /\ NewGroupIds[k] \notin used
                /\ \A j \in 1..(k-1) : NewGroupIds[j] \in used
         doc == [id |-> NewGroupIds[i], creatorId |-> t.uid,
                 memberIds |-> CreatedMembers(t.uid, t.memberIds),
                 lastMessage |-> None, updatedAt |-> Now]
     IN /\ groups' = groups \cup {doc}
        /\ GroupGoOn(t, "CreateGroupInsert",
                     [t EXCEPT !.pc = "respond", !.group = doc,
                               !.target = doc.id])
  /\ emitted' = EmptyBag
  /\ UNCHANGED <<connState, userId, userSockets, isOnline, conversations,
                 messages, left, reauth>>

\* After await createGroup and await getUsersByIds: 201 with the group.
CreateGroupDone(t) ==
  /\ t \in tasks
  /\ t.kind = "createGroup"
  /\ t.pc = "respond"
  /\ GroupRespond(t, "CreateGroupDone", 201, None)
  /\ emitted' = EmptyBag
  /\ UNCHANGED <<connState, userId, userSockets, isOnline, conversations,
                 groups, messages, left, reauth>>

\* ---------------------------------------------- POST /api/conversations
\* The ids insertOne gives to new conversations, in order.
NewConvIds == <<"c1", "c2", "c3", "c4">>

\* The order of the user ids as strings (id1.toString() < id2.toString()).
UserRank(u) == CHOOSE i \in 1..3 : <<"A", "B", "C">>[i] = u

SmallerId(u, p) == IF UserRank(u) < UserRank(p) THEN u ELSE p

LargerId(u, p) == IF UserRank(u) < UserRank(p) THEN p ELSE u

\* The conversations the findOne of createOrGetConversation matches: the
\* two participants in either order.
ConversationsOf(u, p) ==
  {cv \in conversations :
     \/ cv.participant1Id = u /\ cv.participant2Id = p
     \/ cv.participant1Id = p /\ cv.participant2Id = u}

\* A request to open a conversation in flight: conversation is the
\* document createOrGetConversation found or inserted.
ConvTask(u, p, pc) ==
  [id |-> left, kind |-> "createConv", conn |-> None, uid |-> u,
   target |-> p, isTyping |-> FALSE, val |-> FALSE, pc |-> pc,
   recipientIds |-> <<>>, regs |-> {}, current |-> FALSE,
   conversation |-> NoConversation]

\* The response of the request of task t: the status and the id of the
\* conversation it returns.
ConvRespond(t, op, status, cid) ==
  /\ httpResp' = [status |-> status, userId |-> t.uid, target |-> cid]
  /\ tasks' = tasks \ {t}
  /\ last' = Step(op, None, t)

\* The request up to await findUserById; u is req.user.userId, p the
\* participantId of the body.  400 for a conversation with oneself.
CreateConvStart(u, p) ==
  /\ left > 0
  /\ IF p = u
     THEN /\ httpResp' = [status |-> 400, userId |-> u, target |-> None]
          /\ last' = Step("CreateConvRejected", None, NoTask)
          /\ UNCHANGED tasks
     ELSE /\ Cardinality(tasks) < MaxInFlight
          /\ LET t == ConvTask(u, p, "user")
             IN /\ tasks' = tasks \cup {t}
                /\ last' = Step("CreateConvStart", None, t)
          /\ httpResp' = NoResp
  /\ left' = left - 1
  /\ emitted' = EmptyBag
  /\ UNCHANGED <<connState, userId, userSockets, isOnline, conversations,
                 groups, messages, reauth>>

\* After await findUserById: 404 for an id of no user, else
\* createOrGetConversation starts its findOne.
CreateConvUserResult(t) ==
  /\ t \in tasks
  /\ t.kind = "createConv"
  /\ t.pc = "user"
  /\ IF t.target \notin Users
     THEN ConvRespond(t, "CreateConvUserResult", 404, None)
     ELSE /\ httpResp' = NoResp
          /\ tasks' = (tasks \ {t}) \cup {[t EXCEPT !.pc = "find"]}
          /\ last' = Step("CreateConvUserResult", None, t)
  /\ emitted' = EmptyBag
  /\ UNCHANGED <<connState, userId, userSockets, isOnline, conversations,
                 groups, messages, left, reauth>>

\* createOrGetConversation after await findOne: the conversation found is
\* the result, else insertOne is issued.
CreateConvFind(t) ==
  /\ t \in tasks
  /\ t.kind = "createConv"
  /\ t.pc = "find"
  /\ LET found == ConversationsOf(t.uid, t.target)
         t2 == IF found # {}
               THEN [t EXCEPT !.pc = "respond",
                              !.conversation = CHOOSE cv \in found : TRUE]
               ELSE [t EXCEPT !.pc = "insert"]
     IN /\ tasks' = (tasks \ {t}) \cup {t2}
        /\ last' = Step("CreateConvFind", None, t2)
  /\ httpResp' = NoResp
  /\ emitted' = EmptyBag
  /\ UNCHANGED <<connState, userId, userSockets, isOnline, conversations,
                 groups, messages, left, reauth>>

\* insertOne of createOrGetConversation: the unique index on
\* (participant1Id, participant2Id) rejects a second document of the
\* sorted pair; the error reaches the catch of the route, which answers
\* 500.
CreateConvInsert(t) ==
  /\ t \in tasks
  /\ t.kind = "createConv"
  /\ t.pc = "insert"
  /\ LET p1 == SmallerId(t.uid, t.target)
         p2 == LargerId(t.uid, t.target)
         used == {cv.id : cv \in conversations}
         i == CHOOSE k \in 1..Len(NewConvIds) :
                /\ NewConvIds[k] \notin used
                /\ \A j \in 1..(k-1) : NewConvIds[j] \in used
         doc == [id |-> NewConvIds[i], participant1Id |-> p1,
                 participant2Id |-> p2, lastMessage |-> None,
                 updatedAt |-> Now]
     IN IF \E cv \in conversations :
             cv.participant1Id = p1 /\ cv.participant2Id = p2
        THEN /\ ConvRespond(t, "CreateConvInsert", 500, None)
             /\ UNCHANGED conversations
        ELSE /\ conversations' = conversations \cup {doc}
             /\ httpResp' = NoResp
             /\ tasks' = (tasks \ {t})
                            \cup {[t EXCEPT !.pc = "respond",
                                            !.conversation = doc]}
             /\ last' = Step("CreateConvInsert", None, t)
  /\ emitted' = EmptyBag
  /\ UNCHANGED <<connState, userId, userSockets, isOnline, groups,
                 messages, left, reauth>>

\* After await createOrGetConversation and await getUsersByIds: 200 with
\* the conversation.
CreateConvDone(t) ==
  /\ t \in tasks
  /\ t.kind = "createConv"
  /\ t.pc = "respond"
  /\ ConvRespond(t, "CreateConvDone", 200, t.conversation.id)
  /\ emitted' = EmptyBag
  /\ UNCHANGED <<connState, userId, userSockets, isOnline, conversations,
                 groups, messages, left, reauth>>

\* ------------------------------------------------------ specification
\* Connection lifecycle: sockets connect, authenticate and disconnect.
Next ==
  \/ Connect
  \/ \E c \in Conns, u \in Users : AuthStart(c, u)
  \/ \E t \in tasks : DbWrite(t)
  \/ \E t \in tasks : AuthFinish(t)
  \/ \E c \in Conns : Disconnect(c)
  \/ \E t \in tasks : DiscFinish(t)

Spec == Init /\ [][Next]_vars

\* -------------------------------------------------------- reactions
\* The emoji strings of the reaction requests.
Emojis == {"+", "-"}

\* The id of the stored message the reaction requests address.
MessageId == "m1"

NoMessage ==
  [id |-> None, senderId |-> None, target |-> None, reactions |-> <<>>]

\* findOne({_id}) on the messages collection.
MessageById(mid) ==
  IF \E m \in messages : m.id = mid
  THEN CHOOSE m \in messages : m.id = mid
  ELSE NoMessage

\* message.reactions.find(r => r.userId.equals(userObjectId)
\*                              && r.emoji === emoji)
HasReaction(m, u, e) ==
  \E i \in 1..Len(m.reactions) :
    m.reactions[i].userId = u /\ m.reactions[i].emoji = e

\* A reaction request in flight.
ReactTask(kind, u, mid, e, pc) ==
  [id |-> left, kind |-> kind, conn |-> None, uid |-> u, target |-> mid,
   isTyping |-> FALSE, val |-> FALSE, pc |-> pc, recipientIds |-> <<>>,
   regs |-> {}, current |-> FALSE, emoji |-> e]

\* res.json({ message }): found is FALSE for the null of an id of no
\* message.
ReactRespond(t, op, m) ==
  /\ httpResp' = [status |-> 200, userId |-> t.uid, target |-> t.target,
                  found |-> m.id # None, reactions |-> m.reactions]
  /\ tasks' = tasks \ {t}
  /\ last' = Step(op, None, t)

\* POST and DELETE /api/messages/:id/reactions up to the first await of
\* addReaction (its findOne) or of removeReaction (its findOneAndUpdate);
\* 400 without an emoji.
ReactionStart(kind, u, mid, e) ==
  /\ left > 0
  /\ IF e = None
     THEN /\ httpResp' = [status |-> 400, userId |-> u, target |-> mid]
          /\ last' = Step("ReactionRejected", None, NoTask)
          /\ UNCHANGED tasks
     ELSE /\ Cardinality(tasks) < MaxInFlight
          /\ LET t == ReactTask(kind, u, mid, e,
                                IF kind = "addReaction" THEN "find"
                                ELSE "pull")
             IN /\ tasks' = tasks \cup {t}
                /\ last' = Step("ReactionStart", None, t)
          /\ httpResp' = NoResp
  /\ left' = left - 1
  /\ emitted' = EmptyBag
  /\ UNCHANGED <<connState, userId, userSockets, isOnline, conversations,
                 groups, messages, reauth>>

\* addReaction after await findOne: a message that already holds the
\* reaction is returned as it was read, else findOneAndUpdate is issued.
AddReactionFind(t) ==
  /\ t \in tasks
  /\ t.kind = "addReaction"
  /\ t.pc = "find"
  /\ LET m == MessageById(t.target)
     IN IF m.id # None /\ HasReaction(m, t.uid, t.emoji)
        THEN ReactRespond(t, "AddReactionFind", m)
        ELSE /\ httpResp' = NoResp
             /\ tasks' = (tasks \ {t}) \cup {[t EXCEPT !.pc = "push"]}
             /\ last' = Step("AddReactionFind", None, t)
  /\ emitted' = EmptyBag
  /\ UNCHANGED <<connState, userId, userSockets, isOnline, conversations,
                 groups, messages, left, reauth>>

\* findOneAndUpdate of addReaction: $push appends the reaction to the
\* document as it is now; the updated document, or null, is the response.
AddReactionPush(t) ==
  /\ t \in tasks
  /\ t.kind = "addReaction"
  /\ t.pc = "push"
  /\ LET m == MessageById(t.target)
         m2 == IF m.id = None THEN m
               ELSE [m EXCEPT !.reactions =
                       Append(@, [userId |-> t.uid, emoji |-> t.emoji])]
     IN /\ messages' = IF m.id = None THEN messages
                       ELSE (messages \ {m}) \cup {m2}
        /\ ReactRespond(t, "AddReactionPush", m2)
  /\ emitted' = EmptyBag
  /\ UNCHANGED <<connState, userId, userSockets, isOnline, conversations,
                 groups, left, reauth>>

\* findOneAndUpdate of removeReaction: $pull removes every entry of the
\* user and emoji; the updated document, or null, is the response.
RemoveReactionPull(t) ==
  /\ t \in tasks
  /\ t.kind = "removeReaction"
  /\ t.pc = "pull"
  /\ LET m == MessageById(t.target)
         Keep(r) == ~ (r.userId = t.uid /\ r.emoji = t.emoji)
         m2 == IF m.id = None THEN m
               ELSE [m EXCEPT !.reactions = SelectSeq(@, Keep)]
     IN /\ messages' = IF m.id = None THEN messages
                       ELSE (messages \ {m}) \cup {m2}
        /\ ReactRespond(t, "RemoveReactionPull", m2)
  /\ emitted' = EmptyBag
  /\ UNCHANGED <<connState, userId, userSockets, isOnline, conversations,
                 groups, left, reauth>>

\* The server once s1 and s2 have authenticated as A and B and their auth
\* handlers have completed; s3 has authenticated as C, or has not connected
\* yet.
RegisteredClients ==
  /\ \E third \in {"C", None} :
       /\ connState = [c \in Conns |->
                         IF c = "s3" /\ third = None THEN "free" ELSE "open"]
       /\ userId = [c \in Conns |->
                      IF c = "s1" THEN "A" ELSE IF c = "s2" THEN "B"
                      ELSE third]
       /\ userSockets = {<<"A", "s1">>, <<"B", "s2">>}
                          \cup (IF third = None THEN {} ELSE {<<"C", "s3">>})
       /\ isOnline = [u \in Users |-> u # "C" \/ third # None]
  /\ conversations = InitialConversations
  /\ groups = InitialGroups
  /\ messages = {}
  /\ tasks = {}
  /\ emitted = EmptyBag
  /\ httpResp = NoResp
  /\ last = [op |-> "init", conn |-> None, t |-> NoTask]
  /\ reauth = {}

InitRouting == RegisteredClients /\ left = MaxRoutingOps

\* Lifecycle and routing: the registered clients send typing events and
\* messages while sockets connect, authenticate and disconnect.
NextRouting ==
  \/ Connect
  \/ \E c \in Conns, u \in AuthIds : AuthStart(c, u)
  \/ \E t \in tasks : DbWrite(t)
  \/ \E t \in tasks : AuthFinish(t)
  \/ \E c \in Conns : Disconnect(c)
  \/ \E t \in tasks : DiscFinish(t)
  \/ \E c \in Conns, k \in {"typing", "stopTyping"}, x \in Targets,
        b \in BOOLEAN : TypingStart(c, k, x, b, userId[c])
  \/ \E t \in tasks : TypingConvResult(t)
  \/ \E t \in tasks : TypingGroupResult(t)
  \/ \E c \in Conns : MessageRead(c)
  \/ \E u \in Users, x \in Targets, b \in BOOLEAN : PostStart(u, x, b)
  \/ \E t \in tasks : PostConvResult(t)
  \/ \E t \in tasks : PostGroupResult(t)
  \/ \E t \in tasks : PostCreated(t)

SpecRouting == InitRouting /\ [][NextRouting]_vars

\* Lifecycle and routing where an emit of a delivery loop may throw.
NextDelivery ==
  \/ Connect
  \/ \E c \in Conns, u \in AuthIds : AuthStart(c, u)
  \/ \E t \in tasks : DbWrite(t)
  \/ \E t \in tasks : AuthFinish(t)
  \/ \E c \in Conns : Disconnect(c)
  \/ \E t \in tasks : DiscFinish(t)
  \/ \E c \in Conns, k \in {"typing", "stopTyping"}, x \in Targets,
        b \in BOOLEAN : TypingStart(c, k, x, b, userId[c])
  \/ \E t \in tasks : TypingConvResult(t)
  \/ \E t \in tasks : TypingGroupResult(t)
  \/ \E t \in tasks, bad \in Conns : TypingEmitThrows(t, bad)
  \/ \E c \in Conns : MessageRead(c)
  \/ \E u \in Users, x \in Targets, b \in BOOLEAN : PostStart(u, x, b)
  \/ \E t \in tasks : PostConvResult(t)
  \/ \E t \in tasks : PostGroupResult(t)
  \/ \E t \in tasks : PostCreated(t)
  \/ \E t \in tasks, bad \in Conns : PostCreatedThrows(t, bad)

SpecDelivery == InitRouting /\ [][NextDelivery]_vars

InitGroups == RegisteredClients /\ left = MaxGroupOps

\* The group routes: members are added and removed while the registered
\* clients send typing events and messages to the groups.
NextGroups ==
  \/ \E u \in Users, x \in GroupTargets, ms \in EditLists :
       AddMembersStart(u, x, ms)
  \/ \E t \in tasks : AddMembersGroupResult(t)
  \/ \E t \in tasks : AddMembersUsersResult(t)
  \/ \E t \in tasks : AddMembersWrite(t)
  \/ \E t \in tasks : AddMembersNotify(t)
  \/ \E u \in Users, x \in GroupTargets, m \in Users :
       RemoveMemberStart(u, x, m)
  \/ \E t \in tasks : RemoveMemberGroupResult(t)
  \/ \E t \in tasks : RemoveMemberCheck(t)
  \/ \E t \in tasks : RemoveMemberWrite(t)
  \/ \E t \in tasks : RemoveMemberDone(t)
  \/ \E c \in Conns, x \in {GroupId, SmallGroupId} :
       TypingStart(c, "typing", x, TRUE, userId[c])
  \/ \E t \in tasks : TypingConvResult(t)
  \/ \E t \in tasks : TypingGroupResult(t)
  \/ \E u \in Users, x \in {GroupId, SmallGroupId} : PostStart(u, x, TRUE)
  \/ \E t \in tasks : PostConvResult(t)
  \/ \E t \in tasks : PostGroupResult(t)
  \/ \E t \in tasks : PostCreated(t)

SpecGroups == InitGroups /\ [][NextGroups]_vars

InitConversations == RegisteredClients /\ left = MaxConvOps

\* The requests that open a conversation, for every two user ids and an
\* id of no user.
NextConversations ==
  \/ \E u \in Users, p \in Users \cup {UnknownId} : CreateConvStart(u, p)
  \/ \E t \in tasks : CreateConvUserResult(t)
  \/ \E t \in tasks : CreateConvFind(t)
  \/ \E t \in tasks : CreateConvInsert(t)
  \/ \E t \in tasks : CreateConvDone(t)

SpecConversations == InitConversations /\ [][NextConversations]_vars

InitGroupEdits == RegisteredClients /\ left = MaxEditOps

\* The group routes alone: groups are created, and members are added to
\* and removed from the group of A, B and C and the first new group.
NextGroupEdits ==
  \/ \E u \in Users, ms \in CreateLists : CreateGroupStart(u, ms)
  \/ \E t \in tasks : CreateGroupUsersResult(t)
  \/ \E t \in tasks : CreateGroupInsert(t)
  \/ \E t \in tasks : CreateGroupDone(t)
  \/ \E u \in Users, x \in {GroupId, NewGroupIds[1]}, ms \in EditLists :
       AddMembersStart(u, x, ms)
  \/ \E t \in tasks : AddMembersGroupResult(t)
  \/ \E t \in tasks : AddMembersUsersResult(t)
  \/ \E t \in tasks : AddMembersWrite(t)
  \/ \E t \in tasks : AddMembersNotify(t)
  \/ \E u \in Users, x \in {GroupId, NewGroupIds[1]}, m \in Users :
       RemoveMemberStart(u, x, m)
  \/ \E t \in tasks : RemoveMemberGroupResult(t)
  \/ \E t \in tasks : RemoveMemberCheck(t)
  \/ \E t \in tasks : RemoveMemberWrite(t)
  \/ \E t \in tasks : RemoveMemberDone(t)

SpecGroupEdits == InitGroupEdits /\ [][NextGroupEdits]_vars

\* The registered clients and one stored message of A in the conversation
\* of A and B, as createMessage wrote it: without reactions.
InitReactions ==
  /\ connState = [c \in Conns |-> "open"]
  /\ userId = [c \in Conns |->
                 IF c = "s1" THEN "A" ELSE IF c = "s2" THEN "B" ELSE "C"]
  /\ userSockets = {<<"A", "s1">>, <<"B", "s2">>, <<"C", "s3">>}
  /\ isOnline = [u \in Users |-> TRUE]
  /\ conversations = InitialConversations
  /\ groups = InitialGroups
  /\ messages = {[id |-> MessageId, senderId |-> "A", target |-> ConvId,
                  reactions |-> <<>>]}
  /\ tasks = {}
  /\ emitted = EmptyBag
  /\ httpResp = NoResp
  /\ last = [op |-> "init", conn |-> None, t |-> NoTask]
  /\ reauth = {}
  /\ left = MaxReactOps

\* The reaction requests of two users on the stored message and on an id
\* of no message.
NextReactions ==
  \/ \E k \in {"addReaction", "removeReaction"}, u \in {"A", "B"},
        mid \in {MessageId, UnknownId}, e \in Emojis \cup {None} :
       ReactionStart(k, u, mid, e)
  \/ \E t \in tasks : AddReactionFind(t)
  \/ \E t \in tasks : AddReactionPush(t)
  \/ \E t \in tasks : RemoveReactionPull(t)

SpecReactions == InitReactions /\ [][NextReactions]_vars

InitTypingPayload == RegisteredClients /\ left = MaxPayloadOps

\* Typing events whose payload carries any userId, of the sender, of
\* another user or none, while sockets authenticate again under any id.
NextTypingPayload ==
  \/ \E c \in Conns, u \in AuthIds : AuthStart(c, u)
  \/ \E t \in tasks : DbWrite(t)
  \/ \E t \in tasks : AuthFinish(t)
  \/ \E c \in Conns, x \in {ConvId, GroupId}, d \in AuthIds :
       TypingStart(c, "typing", x, TRUE, d)
  \/ \E t \in tasks : TypingConvResult(t)
  \/ \E t \in tasks : TypingGroupResult(t)

SpecTypingPayload == InitTypingPayload /\ [][NextTypingPayload]_vars

InitMessageRouting == RegisteredClients /\ left = MaxMessageOps

\* Message-send requests while connected sockets authenticate, under the
\* id they already have or under another one.
NextMessageRouting ==
  \/ \E c \in Conns, u \in Users : AuthStart(c, u)
  \/ \E t \in tasks : DbWrite(t)
  \/ \E t \in tasks : AuthFinish(t)
  \/ \E u \in Users, x \in Targets, b \in BOOLEAN : PostStart(u, x, b)
  \/ \E t \in tasks : PostConvResult(t)
  \/ \E t \in tasks : PostGroupResult(t)
  \/ \E t \in tasks : PostCreated(t)

SpecMessageRouting == InitMessageRouting /\ [][NextMessageRouting]_vars

InitTyping == RegisteredClients /\ left = MaxTypingOps

\* The typing and stopTyping handlers alone: the registered clients send
\* typing events, and the lookups of the handlers complete in any order.
NextTyping ==
  \/ \E c \in Conns, k \in {"typing", "stopTyping"}, x \in Targets,
        b \in BOOLEAN : TypingStart(c, k, x, b, userId[c])
  \/ \E t \in tasks : TypingConvResult(t)
  \/ \E t \in tasks : TypingGroupResult(t)

SpecTyping == InitTyping /\ [][NextTyping]_vars

\* ------------------------------------------------------------ claims
\* Number of events of the given type the last step delivered to socket d.
CountTo(d, type) ==
  LET es == {e \in BagToSet(emitted) : e.to = d /\ e.type = type}
  IN BagCardinality([e \in es |-> emitted[e]])

\* A socket whose user has a registry entry that names another socket.
Superseded(c) ==
  /\ userId[c] # None
  /\ Has(userSockets, userId[c])
  /\ Get(userSockets, userId[c]) # c

\* C1: when a socket that a later auth of the same user has superseded
\* disconnects, the registry is left as it is (it still maps the user to
\* the newer socket) and no offline presence write or offline userStatus
\* broadcast is started for the user.
C1_SupersededDisconnectIsNoOp ==
  [][\A c \in Conns :
       (connState[c] = "open" /\ connState'[c] = "closed" /\ Superseded(c))
         => /\ userSockets' = userSockets
            /\ ~ \E t \in tasks' : t.kind = "disconnect" /\ t.conn = c]_vars

\* C2: whenever no auth or disconnect handler is in flight, the persisted
\* isOnline flag of every user equals "the registry has an entry for the
\* user".
C2_PresenceMatchesRegistry ==
  (~ \E t \in tasks : t.kind \in {"auth", "disconnect"})
    => \A u \in Users : isOnline[u] = Has(userSockets, u)

\* C3: the registry holds at most one socket per userId, and right after an
\* auth the only entry of the authenticated userId is the authenticating
\* socket.
C3_AtMostOneHandlePerUser ==
  /\ \A u \in Users : Cardinality({p \in userSockets : p[1] = u}) <= 1
  /\ last.op = "AuthStart"
       => {p \in userSockets : p[1] = last.t.uid}
            = {<<last.t.uid, last.conn>>}

\* C3 witness: a second socket has just authenticated with a userId that
\* another open socket had registered, and the entry now names the second.
C3_Witness ==
  /\ last.op = "AuthStart"
  /\ \E c \in Conns \ {last.conn} :
       connState[c] = "open" /\ userId[c] = last.t.uid
  /\ Get(userSockets, last.t.uid) = last.conn

\* C4: no userStatus event with isOnline=false is delivered for a user
\* that authenticated again while online and whose current connection has
\* not disconnected since.
C4_NoOfflineFlickerAfterReauth ==
  \A e \in BagToSet(emitted) :
    (e.type = "userStatus" /\ ~e.flag) => e.userId \notin reauth

\* C5 as stated: after the disconnect of the current connection of a user
\* the registry has no entry for the user, and every other connection that
\* was registered (and open) when it disconnected receives exactly one
\* offline userStatus for the user.
C5_OfflineBroadcastToAllRegistered ==
  /\ (last.op = "Disconnect" /\ last.t.current)
       => ~Has(userSockets, last.t.uid)
  /\ (last.op = "DiscFinish" /\ last.t.current)
       => \A d \in last.t.regs :
            CopiesIn(Event(d, "userStatus", last.t.uid, None, FALSE),
                     emitted) = 1

\* C5 amended: after the disconnect of the current connection of a user
\* the registry has no entry for the user, and every other connection that
\* was registered when it disconnected and is still connected when the
\* offline broadcast is sent receives exactly one offline userStatus for
\* the user.
C5_OfflineBroadcastToStillConnected ==
  /\ (last.op = "Disconnect" /\ last.t.current)
       => ~Has(userSockets, last.t.uid)
  /\ (last.op = "DiscFinish" /\ last.t.current)
       => \A d \in last.t.regs :
            connState[d] = "open"
              => /\ Event(d, "userStatus", last.t.uid, None, FALSE)
                      \in BagToSet(emitted)
                 /\ CountTo(d, "userStatus") = 1

\* C5 witness: the offline broadcast of a current connection's disconnect
\* has just reached a connection that was registered at the disconnect.
C5_Witness ==
  /\ last.op = "DiscFinish"
  /\ last.t.current
  /\ \E d \in last.t.regs :
       connState[d] = "open" /\ CountTo(d, "userStatus") = 1

\* The participant of conversation cv other than u.
OtherParticipant(cv, u) ==
  IF cv.participant1Id = u THEN cv.participant2Id ELSE cv.participant1Id

\* The last step emitted the typing(true) event of a participant X of a
\* conversation whose other participant Y is registered on another, open
\* socket.
C6_Case ==
  /\ last.op = "TypingConvResult"
  /\ last.t.kind = "typing"
  /\ last.t.isTyping
  /\ LET cv == ConversationById(last.t.target)
         X == last.t.uid
         Y == OtherParticipant(cv, X)
     IN /\ X \in {cv.participant1Id, cv.participant2Id}
        /\ Has(userSockets, X)
        /\ Has(userSockets, Y)
        /\ connState[Get(userSockets, Y)] = "open"
        /\ Get(userSockets, Y) \notin {last.conn, Get(userSockets, X)}

\* C6: with A and B registered on different sockets, a typing(true) event
\* of A's socket on their conversation delivers exactly one
\* typing{userId:A, isTyping:true} to B's socket and none to A's.
C6_TypingReachesOtherParticipantOnce ==
  C6_Case =>
    LET X == last.t.uid
        Y == OtherParticipant(ConversationById(last.t.target), X)
        d == Get(userSockets, Y)
    IN /\ CopiesIn(Event(d, "typing", X, last.t.target, TRUE), emitted) = 1
       /\ CountTo(d, "typing") = 1
       /\ CountTo(last.conn, "typing") = 0
       /\ CountTo(Get(userSockets, X), "typing") = 0

\* C6 witness: such a typing event has just been delivered.
C6_Witness == C6_Case /\ BagCardinality(emitted) = 1

\* The last step completed a message of member u to the group of A, B and
\* C while the three were registered on three different open sockets.
C7_Case ==
  /\ last.op = "PostCreated"
  /\ last.t.target = GroupId
  /\ Range(GroupById(GroupId).memberIds) = {"A", "B", "C"}
  /\ \A m \in {"A", "B", "C"} :
       Has(userSockets, m) /\ connState[Get(userSockets, m)] = "open"
  /\ Cardinality({Get(userSockets, m) : m \in {"A", "B", "C"}}) = 3

\* C7: one message of A to the group {A,B,C}, all registered, delivers
\* exactly one newMessage to B's socket, exactly one to C's, none to A's.
C7_GroupMessageFanOut ==
  C7_Case =>
    /\ \A m \in {"A", "B", "C"} \ {last.t.uid} :
         /\ CopiesIn(Event(Get(userSockets, m), "newMessage", last.t.uid,
                             GroupId, FALSE), emitted) = 1
         /\ CountTo(Get(userSockets, m), "newMessage") = 1
    /\ CountTo(Get(userSockets, last.t.uid), "newMessage") = 0

\* C7 witness: A's message to the group has just been fanned out.
C7_Witness == C7_Case /\ last.t.uid = "A" /\ BagCardinality(emitted) = 2

\* C8: on the message-send path and on the typing/stopTyping path alike,
\* resolving a conversation yields exactly the other participant for a
\* sender that is a participant, and for any other sender yields no
\* recipient and no delivery (403 on the message-send path).
C8_ConversationResolution ==
  last.op \in {"TypingConvResult", "PostConvResult"} =>
    LET cv == ConversationById(last.t.target)
        u == last.t.uid
    IN IF u \in {cv.participant1Id, cv.participant2Id}
       THEN last.t.recipientIds = <<OtherParticipant(cv, u)>>
       ELSE /\ last.t.recipientIds = <<>>
            /\ emitted = EmptyBag
            /\ last.op = "PostConvResult" => httpResp.status = 403

\* C9: on the message-send path and on the typing/stopTyping path alike,
\* resolving a group of N members yields exactly the N-1 members other
\* than the sender for a sender that is a member, and for any other sender
\* yields no recipient and no delivery (403 on the message-send path).
C9_GroupResolution ==
  (last.op \in {"TypingGroupResult", "PostGroupResult"}
     /\ GroupById(last.t.target).id # None) =>
    LET g == GroupById(last.t.target)
        u == last.t.uid
    IN IF u \in Range(g.memberIds)
       THEN /\ Range(last.t.recipientIds) = Range(g.memberIds) \ {u}
            /\ Len(last.t.recipientIds) = Len(g.memberIds) - 1
       ELSE /\ last.t.recipientIds = <<>>
            /\ emitted = EmptyBag
            /\ last.op = "PostGroupResult" => httpResp.status = 403

\* C10: the group lookup of a message-send request runs only after its
\* conversation lookup found nothing, and a request whose id is neither a
\* conversation nor a group is answered 404, its handler ends there, and
\* nothing is sent on any socket.
C10_UnknownTargetIs404 ==
  /\ \A t \in tasks :
       (t.kind = "post" /\ t.pc = "group")
         => ConversationById(t.target).id = None
  /\ (last.op = "PostGroupResult"
        /\ ConversationById(last.t.target).id = None
        /\ GroupById(last.t.target).id = None)
       => /\ httpResp = [status |-> 404, userId |-> last.t.uid,
                         target |-> last.t.target]
          /\ emitted = EmptyBag
          /\ last.t.recipientIds = <<>>
          /\ ~ \E t \in tasks : t.kind = "post" /\ t.id = last.t.id

\* C10 witness: a message-send request for an unknown id has just been
\* answered.
C10_Witness ==
  /\ last.op = "PostGroupResult"
  /\ last.t.target = UnknownId
  /\ httpResp.status = 404

\* The steps that deliver a routed event to the resolved recipients.
RoutingOps == {"PostCreated", "TypingConvResult", "TypingGroupResult"}

\* The recipients of the last step that have a registry entry naming a
\* connected socket.
ReachableRecipients ==
  {r \in Range(last.t.recipientIds) :
     Has(userSockets, r) /\ connState[Get(userSockets, r)] = "open"}

\* The last step routed an event to recipients of which at least one has no
\* registry entry.
C11_Case ==
  /\ last.op \in RoutingOps
  /\ \E r \in Range(last.t.recipientIds) : ~Has(userSockets, r)

\* C11: routing an event to a recipient without a registry entry completes
\* without error (the handler ends, a message-send is answered 201), puts
\* nothing on any socket for that recipient, still delivers one event to
\* every other recipient that is registered on a connected socket, and
\* leaves nothing behind for later delivery: newMessage and typing events
\* appear on a socket only in the routing step itself, on the sockets the
\* registry names for its recipients at that step.
C11_AbsentRecipientSkipped ==
  /\ C11_Case =>
       /\ \A r \in ReachableRecipients :
            CountTo(Get(userSockets, r),
                    IF last.op = "PostCreated" THEN "newMessage"
                    ELSE "typing") >= 1
       /\ BagCardinality(emitted) = Cardinality(ReachableRecipients)
       /\ ~ \E t \in tasks : t.id = last.t.id /\ t.kind = last.t.kind
       /\ last.op = "PostCreated" => httpResp.status = 201
  /\ \A e \in BagToSet(emitted) :
       e.type \in {"newMessage", "typing"}
         => /\ last.op \in RoutingOps
            /\ e.to \in {Get(userSockets, r) : r \in ReachableRecipients}

\* C11 witness: a message to the group of A, B and C has just been sent
\* while the first recipient had no registry entry, and the second
\* recipient received it.
C11_Witness ==
  /\ C11_Case
  /\ last.op = "PostCreated"
  /\ Len(last.t.recipientIds) = 2
  /\ ~Has(userSockets, last.t.recipientIds[1])
  /\ CountTo(Get(userSockets, last.t.recipientIds[2]), "newMessage") = 1

\* The handler segments that take a typing, stopTyping or messageRead event
\* off a socket.
InboundOps ==
  {"TypingStart", "TypingDropped", "MessageRead", "MessageReadDropped"}

C13_SameConnectionEventsInOrder ==
  (last.op \in {"TypingConvResult", "TypingGroupResult"}
     /\ emitted # EmptyBag)
    => ~ \E t \in tasks :
           /\ t.kind \in {"typing", "stopTyping"}
           /\ t.conn = last.conn
           /\ t.target = last.t.target
           /\ t.id > last.t.id

\* C14: when the auth handler of a connection completes, every other
\* connected socket receives the userStatus online event of the user, the
\* authenticating connection receives exactly one userList event, and no
\* other connection receives a userList event in that step.
C14_AuthSendsUserListToNewConnection ==
  (last.op = "AuthFinish" /\ connState[last.conn] = "open") =>
    /\ \A d \in OpenConns \ {last.conn} :
         CopiesIn(Event(d, "userStatus", userId[last.conn], None, TRUE),
                  emitted) = 1
    /\ CountTo(last.conn, "userList") = 1
    /\ \A d \in Conns \ {last.conn} : CountTo(d, "userList") = 0

\* C15: an auth with a userId that already has a registry entry starts no
\* presence write and no userStatus online broadcast: the step leaves no
\* new auth handler waiting to write isOnline and to broadcast.
C15_ReauthStartsNoPresenceUpdate ==
  [][\A c \in Conns, u \in Users :
       (/\ connState[c] = "open"
        /\ Has(userSockets, u)
        /\ left' = left - 1
        /\ last'.op = "AuthStart"
        /\ last'.conn = c
        /\ last'.t.uid = u)
         => ~ \E t \in tasks' \ tasks : t.kind = "auth" /\ t.uid = u]_vars

\* C16: a connection whose userId has since been registered by another
\* connection receives no further event: no step delivers an event about
\* another user to a socket that is superseded.
C16_SupersededReceivesNothing ==
  \A e \in BagToSet(emitted) :
    ~ (Superseded(e.to) /\ e.userId # userId[e.to])

\* C17: an auth whose payload has no userId is dropped: the step that
\* takes it leaves the registry, the persisted presence, the connection
\* and its closure userId as they were, puts nothing on any socket and
\* starts no handler that writes presence or broadcasts later.
C17_MalformedAuthDropped ==
  [][(/\ last'.op = "AuthStart"
      /\ last'.t.uid = None
      /\ left' = left - 1)
       => /\ userSockets' = userSockets
          /\ isOnline' = isOnline
          /\ connState' = connState
          /\ userId' = userId
          /\ emitted' = EmptyBag
          /\ tasks' = tasks]_vars

\* The steps in which the emit to one recipient's socket (last.conn) threw.
ThrowOps == {"PostCreatedThrows", "TypingEmitThrows"}

\* C18: when the write to one recipient's connection fails during routing,
\* that connection is cleaned up as by its disconnect (it is closed, its
\* registry entry is removed if it was the current one, and the offline
\* presence write and broadcast of its user are started), and the failure
\* is not reported to the caller (a message-send is still answered 201).
C18_FailedWriteIsImplicitDisconnect ==
  last.op \in ThrowOps =>
    /\ connState[last.conn] = "closed"
    /\ last.conn \notin RegisteredConns
    /\ \E t \in tasks : t.kind = "disconnect" /\ t.conn = last.conn
    /\ last.op = "PostCreatedThrows" => httpResp.status = 201

\* C19: when the emit to one recipient's socket raises an error, every
\* other recipient of the same call that is registered on a connected
\* socket still receives the event.
C19_DeliveryErrorIsIsolated ==
  last.op \in ThrowOps =>
    \A r \in ReachableRecipients :
      Get(userSockets, r) # last.conn
        => CountTo(Get(userSockets, r),
                   IF last.op = "PostCreatedThrows" THEN "newMessage"
                   ELSE "typing") = 1

\* The recipients the typing handler resolves for sender u and id x.
TypingRecipientsOf(u, x) ==
  LET cv == ConversationById(x)
      g == GroupById(x)
  IN IF cv.id # None THEN TypingConvRecipients(cv, u)
     ELSE IF g.id # None THEN TypingGroupRecipients(g, u) ELSE <<>>

\* The last step delivered for a stopTyping event, or for a typing event
\* with isTyping false.
C20_Case ==
  /\ last.op \in {"TypingConvResult", "TypingGroupResult"}
  /\ \/ last.t.kind = "stopTyping"
     \/ last.t.kind = "typing" /\ ~last.t.isTyping

\* C20: a stopTyping{conversationId} event and a typing{conversationId,
\* isTyping:false} event of the same sender have the same effect: either
\* delivers typing{userId: sender, conversationId, isTyping:false}, and
\* nothing else, once per recipient the typing handler resolves, to the
\* socket the registry names for that recipient.
C20_StopTypingIsTypingFalse ==
  C20_Case =>
    LET u == last.t.uid
        x == last.t.target
        rs == TypingRecipientsOf(u, x)
    IN /\ \A d \in Conns :
            CopiesIn(Event(d, "typing", u, x, FALSE), emitted)
              = IF connState[d] = "open"
                THEN Cardinality({r \in Range(rs) :
                                    Get(userSockets, r) = d})
                ELSE 0
       /\ \A e \in BagToSet(emitted) :
            e = Event(e.to, "typing", u, x, FALSE)

\* C20 witness: the stopTyping event of a participant has just been
\* delivered to the other participant of the conversation.
C20_Witness ==
  /\ C20_Case
  /\ last.t.kind = "stopTyping"
  /\ last.t.target = ConvId
  /\ last.t.uid = "A"
  /\ CopiesIn(Event(Get(userSockets, "B"), "typing", "A", ConvId, FALSE),
              emitted) = 1

\* The time at which the request of task t was accepted.
AcceptedAt(t) == 100 - t.id

\* C21: recipient sets are not cached between events.  When a message or
\* a typing event is delivered for a group whose document was last written
\* before the request of the event was accepted (every membership edit
\* made so far had taken effect by then), the event goes to the registered
\* sockets of the current members other than the sender and to no one
\* else: a removed member receives nothing, an added member receives it.
C21_RoutingUsesCurrentMembership ==
  [][LET t == last'.t
         g == GroupById(t.target)
         others == Range(g.memberIds) \ {t.uid}
     IN (/\ last'.op \in {"PostCreated", "TypingGroupResult"}
         /\ g.id # None
         /\ g.updatedAt <= AcceptedAt(t))
          => /\ \A m \in others :
                  (Has(userSockets, m)
                     /\ connState[Get(userSockets, m)] = "open")
                    => \E e \in BagToSet(emitted') :
                         e.to = Get(userSockets, m)
             /\ \A e \in BagToSet(emitted') :
                  e.to \in {Get(userSockets, m) : m \in others}]_vars

\* C21 witness: after C has been removed from the group of A, B and C, a
\* typing event sent to the group afterwards has just been delivered to a
\* member while C, registered and connected, received nothing.
C21_Witness ==
  /\ last.op = "TypingGroupResult"
  /\ last.t.target = GroupId
  /\ "C" \notin Range(GroupById(GroupId).memberIds)
  /\ GroupById(GroupId).updatedAt > 0
  /\ GroupById(GroupId).updatedAt <= AcceptedAt(last.t)
  /\ Has(userSockets, "C")
  /\ connState[Get(userSockets, "C")] = "open"
  /\ CountTo(Get(userSockets, "C"), "typing") = 0
  /\ emitted # EmptyBag

\* The steps of the message-send request.
PostOps == {"PostRejected", "PostStart", "PostConvResult", "PostConvMiss",
            "PostGroupResult", "PostCreated"}

\* C22: a step that rejects a message-send request (400, 403 for a sender
\* that is no participant or no member, 404 for an unknown id) leaves the
\* messages collection and every conversation and group document (their
\* last-message fields included) as they were, puts no event on any
\* socket, and ends the request: nothing of it is left to run.
C22_RejectedSendHasNoEffect ==
  [][(/\ last'.op \in PostOps
      /\ httpResp'.status \in {400, 403, 404})
       => /\ messages' = messages
          /\ conversations' = conversations
          /\ groups' = groups
          /\ emitted' = EmptyBag
          /\ ~ \E t \in tasks' : t.kind = "post" /\ t.id = last'.t.id]_vars

\* C22 witness: the message of C to the group of A and B has just been
\* rejected with 403.
C22_Witness ==
  /\ last.op = "PostGroupResult"
  /\ last.t.uid = "C"
  /\ last.t.target = SmallGroupId
  /\ httpResp.status = 403
  /\ messages = {}

\* C23: for any two users at most one conversation document exists, and
\* every createOrGetConversation call for them, in either argument order
\* and whatever other call runs at the same time, ends by returning that
\* conversation: the request that made the call is answered 200 with the
\* id of the one conversation of the pair.
C23_OneConversationPerPair ==
  /\ \A u \in Users, p \in Users :
       Cardinality(ConversationsOf(u, p)) <= 1
  /\ (last.op \in {"CreateConvInsert", "CreateConvDone"}
        /\ httpResp.status # 0)
       => /\ httpResp.status = 200
          /\ \E cv \in ConversationsOf(last.t.uid, last.t.target) :
               httpResp.target = cv.id

\* Every group has its creator among its members and no member id twice.
GroupsWellFormed ==
  \A g \in groups :
    /\ g.creatorId \in Range(g.memberIds)
    /\ Cardinality(Range(g.memberIds)) = Len(g.memberIds)

\* C24: whatever groups are created and whatever members are added and
\* removed, every group has its creator among its members and no member
\* id twice; and the step in which removeMemberFromGroup finds that the
\* member to remove is the creator ends the request with the error
\* 'Creator cannot be removed' and leaves every group as it was.
C24_GroupInvariants ==
  /\ []GroupsWellFormed
  /\ [][(/\ last'.op = "RemoveMemberCheck"
          /\ GroupById(last'.t.target).creatorId = last'.t.memberIds[1])
           => /\ httpResp'.status = 403
              /\ httpResp'.error = "Creator cannot be removed"
              /\ groups' = groups
              /\ ~ \E t \in tasks' : t.id = last'.t.id]_vars

\* C24 witness: the creator of a group that a request has created with
\* another member has just asked to be removed and has been refused.
C24_Witness ==
  /\ last.op = "RemoveMemberCheck"
  /\ httpResp.status = 403
  /\ httpResp.error = "Creator cannot be removed"
  /\ last.t.target = NewGroupIds[1]
  /\ Len(GroupById(NewGroupIds[1]).memberIds) >= 2
  /\ GroupsWellFormed

\* C25: whatever addReaction and removeReaction calls have run on a
\* message, two addReaction calls of one user and emoji at the same time
\* included, its reaction list holds at most one entry for any user and
\* emoji; and an addReaction call for a reaction the message already
\* holds answers with the message as it is stored.
C25_OneReactionPerUserAndEmoji ==
  /\ \A m \in messages :
       \A i, j \in 1..Len(m.reactions) :
         (m.reactions[i] = m.reactions[j]) => i = j
  /\ (last.op = "AddReactionFind" /\ httpResp.status = 200)
       => /\ httpResp.found
          /\ httpResp.reactions = MessageById(last.t.target).reactions

\* C26: when a member of a group has added the users of a list, every user
\* of the list that has a registry entry receives exactly one groupUpdate
\* event, with the id of the group, the action memberAdded and the group
\* as the update left it, which holds every user of the list; no socket
\* of a user outside the list receives a groupUpdate event, and none is
\* sent at any other step; a request of a user that is not a member of
\* the group is answered 403, writes no group and emits nothing.
C26_MemberAddedNotifiesAddedUsersOnly ==
  /\ [](/\ last.op = "AddMembersNotify"
           => /\ last.t.group.id = last.t.target
              /\ Range(last.t.memberIds) \subseteq
                   Range(last.t.group.memberIds)
              /\ \A m \in Range(last.t.memberIds) :
                   (Get(userSockets, m) # None
                      /\ connState[Get(userSockets, m)] = "open")
                     => /\ CopiesIn(GroupUpdateEvent(Get(userSockets, m),
                                      last.t.target, "memberAdded",
                                      last.t.group), emitted) = 1
                        /\ CountTo(Get(userSockets, m), "groupUpdate") = 1
              /\ \A e \in BagToSet(emitted) :
                   /\ e.type = "groupUpdate"
                   /\ \E m \in Range(last.t.memberIds) :
                        e.to = Get(userSockets, m)
        /\ \A e \in BagToSet(emitted) :
             e.type = "groupUpdate" => last.op = "AddMembersNotify")
  /\ [][(/\ last'.op = "AddMembersGroupResult"
         /\ GroupById(last'.t.target).id # None
         /\ last'.t.uid \notin Range(GroupById(last'.t.target).memberIds))
          => /\ httpResp'.status = 403
             /\ groups' = groups
             /\ emitted' = EmptyBag
             /\ ~ \E t \in tasks' : t.id = last'.t.id]_vars

\* C26 witness: A has added C to the group of A and B, and the socket of C
\* has received the one groupUpdate event of the request.
C26_Witness ==
  /\ last.op = "AddMembersNotify"
  /\ last.t.uid = "A"
  /\ last.t.target = SmallGroupId
  /\ last.t.memberIds = <<"C">>
  /\ emitted = SetToBag({GroupUpdateEvent("s3", SmallGroupId, "memberAdded",
                                          GroupById(SmallGroupId))})
  /\ "C" \in Range(GroupById(SmallGroupId).memberIds)

\* C27: once a connection has closed, no entry of the registry names it,
\* whatever auth events it sent while it was open, one for a user A
\* followed by one for a user B included.
C27_NoEntryForClosedConnection ==
  \A c \in Conns :
    connState[c] = "closed" => ~ \E u \in Users : <<u, c>> \in userSockets

\* C28: a connection that has never authenticated receives no event of
\* any type: a presence broadcast reaches only connections that have a
\* registry entry.
C28_PendingReceivesNothing ==
  \A e \in BagToSet(emitted) :
    /\ userId[e.to] # None
    /\ \E u \in Users : <<u, e.to>> \in userSockets

Audience(x) ==
  LET cv == ConversationById(x)
      g == GroupById(x)
  IN IF cv.id # None THEN {cv.participant1Id, cv.participant2Id}
     ELSE IF g.id # None THEN Range(g.memberIds) ELSE {}

\* C30: a newMessage event of a message posted to a conversation or group
\* reaches a socket only in the step that delivers the message, only if
\* the registry names the socket for a participant or member other than
\* the sender, and never if the socket is the connection of a user who is
\* no participant or member: every user the socket authenticated as, or
\* is registered for, belongs to the conversation or group.
C30_NewMessageOnlyToAudience ==
  \A e \in BagToSet(emitted) :
    e.type = "newMessage"
      => /\ last.op = "PostCreated"
         /\ \E r \in Audience(last.t.target) \ {last.t.uid} :
              <<r, e.to>> \in userSockets
         /\ \A u \in Users :
              (userId[e.to] = u \/ <<u, e.to>> \in userSockets)
                => u \in Audience(last.t.target)

====
